---- MODULE Spec2Model ----
(***************************************************************************)
(* The two asyncio caches of the kiana bot.                                *)
(*                                                                         *)
(*   fund         SafeCache (src/plugins/fund/cache.py): an OrderedDict of *)
(*                CacheEntry guarded by one asyncio.Lock per cache, and    *)
(*                get_etf_spot_data_cached, its caller with two sources.   *)
(*   un_nickname  the nickname map cache (src/plugins/un_nickname): one    *)
(*                asyncio.Lock per group, kept in a registry that          *)
(*                _invalidate_cache reclaims.                              *)
(*                                                                         *)
(* Tasks are asyncio coroutines: a task runs without interruption from one *)
(* suspension to the next, so an action is the code between two            *)
(* suspensions.  A task suspends in two places only: on an asyncio.Lock    *)
(* that it cannot take at once, and on the awaited fetch.                  *)
(***************************************************************************)
EXTENDS Integers, Sequences, FiniteSets, TLC

\* ---------------------------------------------------------------- bounds
NumTasks == 2
MaxNow == 2
MaxSize == 2
MaxTtl == 1
MaxMuteTicks == 3

\* The coroutine slots: the concurrent callers, and one more for the runs
\* on a single group.
Tasks == 1..(NumTasks + 1)

\* ------------------------------------------------------------ vocabulary
None == "None"
Raised == "raise"
Data == {"V1", "V2"}
PrimaryKey == "etf_spot_data"
FallbackKey == "etf_spot_data_ths"
Keys == {PrimaryKey, FallbackKey, "k3"}

\* fund_enable_data_source_fallback, at its default.
EnableFallback == TRUE

\* The runs explored: a run with concurrent callers on the two keys of
\* the ETF cache, and a run of one caller on three keys that fills a cache,
\* whose order of touches is recorded (lru) and whose fetches may yield None.
FundUniverses ==
    {[plugin |-> "fund", keys |-> {PrimaryKey, FallbackKey},
      data |-> Data, tasks |-> 1..NumTasks, sizes |-> {MaxSize},
      lru |-> FALSE, clock |-> MaxNow],
     [plugin |-> "fund", keys |-> Keys, data |-> {"V1", None}, tasks |-> {1},
      sizes |-> 1..MaxSize, lru |-> TRUE, clock |-> MaxNow]}

\* un_nickname: the groups, the nickname maps a query can yield, the TTLs.
Groups == {"g1", "g2"}
EmptyMap == "{}"
Maps == {EmptyMap, "m1"}
CACHE_TTL == 300
EMPTY_CACHE_TTL == 30

\* Runs of un_nickname: three callers on one group, two callers on two.
NickUniverses ==
    {[plugin |-> "un_nickname", keys |-> {"g1"}, data |-> Maps, tasks |-> Tasks,
      sizes |-> {MaxSize}, lru |-> FALSE, clock |-> MaxNow],
     [plugin |-> "un_nickname", keys |-> Groups, data |-> Maps,
      tasks |-> 1..NumTasks, sizes |-> {MaxSize}, lru |-> FALSE, clock |-> MaxNow]}

\* FundDataCacheManager: its four caches, in the order its methods name
\* them, and the one key the runs use in each.
CacheOrder == << "etf", "lof", "fund", "stock" >>
CacheNames == {CacheOrder[i] : i \in 1..Len(CacheOrder)}
MgrKey == "k3"

\* Runs of the manager: callers that populate a named cache, clear all
\* caches or collect the statistics.
MgrUniverses ==
    {[plugin |-> "manager", keys |-> {MgrKey}, data |-> {"V1"},
      tasks |-> 1..NumTasks, sizes |-> {MaxSize}, lru |-> FALSE, clock |-> 0]}

\* The mute-status hook: the groups whose messages arrive, the validity of
\* a cached status in seconds, the step of the clock and the length of a
\* run in steps.
MuteGroups == {"q1", "q2"}
_CACHE_TTL == 60
MuteStep == _CACHE_TTL \div 2
MuteClock == MaxMuteTicks * MuteStep

\* shut_up_timestamp of the answers of get_group_member_info: 0 when the
\* bot is not muted, else the second the mute ends.
ShutUps == {0} \cup {k * MuteStep : k \in 1..MaxMuteTicks}

\* Runs of the hook: handlers of group and private messages.
MuteUniverses ==
    {[plugin |-> "mute", keys |-> MuteGroups, data |-> ShutUps,
      tasks |-> 1..NumTasks, sizes |-> {MaxSize}, lru |-> FALSE, clock |-> MuteClock]}

\* The asyncio.Lock objects a run can hold at once.
LockIds == 1..(NumTasks + 1 + Cardinality(Groups))

VARIABLES
    universe,        \* the plugin, keys, values and callers of this run
    now,             \* datetime.now() / time()
    cache,           \* SafeCache._cache, in OrderedDict order
    max_size,        \* SafeCache._max_size
    lock,            \* SafeCache._lock
    tasks,           \* the coroutines: position and locals of each
    scn,             \* history: keys by last touch, while only new inserts and hits
    nickname_cache,  \* _nickname_cache: group -> (expires_at, map)
    cache_locks,     \* _cache_locks: group -> lock object, 0 when absent
    _global_lock,    \* _global_lock, the guard of _cache_locks
    locks,           \* the lock objects
    invalidated,     \* history: groups _invalidate_cache was called for
    mcaches,         \* FundDataCacheManager: _cache of each named SafeCache
    mlocks,          \* FundDataCacheManager: _lock of each named SafeCache
    mtasks,          \* the coroutines that use the manager
    _mute_cache,     \* _mute_cache: group -> (check_timestamp, is_muted, mute_end_timestamp)
    mute_tasks,      \* the running check_bot_mute_status hooks
    last_query       \* history: when get_group_member_info was last called per group

fundVars == <<cache, max_size, lock, scn>>
nickVars == <<nickname_cache, cache_locks, _global_lock, locks, invalidated>>
mgrVars == <<mcaches, mlocks, mtasks>>
muteVars == <<_mute_cache, mute_tasks, last_query>>
vars == <<universe, now, tasks, fundVars, nickVars, mgrVars, muteVars>>

\* -------------------------------------------------------- asyncio.Lock
\* A lock is its _locked flag and its _waiters deque; a waiter is the task
\* and whether its future has been resolved by _wake_up_first.
NewLock == [locked |-> FALSE, waiters |-> << >>]

\* Lock.acquire, first test: free, and nobody is queued.
CanAcquire(l) == ~l.locked /\ l.waiters = << >>

AcquireNow(l) == [l EXCEPT !.locked = TRUE]

\* Lock.acquire, slow path: append a future and await it.
Enqueue(l, t) == [l EXCEPT !.waiters = Append(@, [task |-> t, woken |-> FALSE])]

\* Lock._wake_up_first: resolve the future of the first waiter.
WakeUpFirst(ws) == IF ws = << >> THEN ws ELSE [ws EXCEPT ![1].woken = TRUE]

\* Lock.release.
Release(l) == [locked |-> FALSE, waiters |-> WakeUpFirst(l.waiters)]

\* The awaited future of t on l is resolved: t can run again.
Woken(l, t) == \E i \in 1..Len(l.waiters) : l.waiters[i].task = t /\ l.waiters[i].woken

\* Lock.acquire after the await: leave the deque, take the lock.
ResumeAcquire(l, t) ==
    [locked |-> TRUE,
     waiters |-> SelectSeq(l.waiters, LAMBDA w : w.task # t)]

\* ------------------------------------------------ CacheEntry, OrderedDict
NoEntry == [present |-> FALSE, data |-> None, timestamp |-> 0]

CacheEntry(data, timestamp) == [present |-> TRUE, data |-> data, timestamp |-> timestamp]

\* An item of the OrderedDict: the key, the CacheEntry, and (history) what
\* wrote it: "set", or the fetch function of the get_or_update that stored it.
Item(k, e, by) == [key |-> k, data |-> e.data, timestamp |-> e.timestamp, by |-> by]

\* A variant that takes every entry for expired.
is_expired_always(e, ttl_minutes) == TRUE

\* CacheEntry.is_expired
is_expired(e, ttl_minutes) == now - e.timestamp > ttl_minutes

IndexOf(c, k) ==
    IF \E i \in 1..Len(c) : c[i].key = k
    THEN CHOOSE i \in 1..Len(c) : c[i].key = k
    ELSE 0

\* OrderedDict.get
Lookup(c, k) ==
    IF IndexOf(c, k) = 0 THEN NoEntry
    ELSE CacheEntry(c[IndexOf(c, k)].data, c[IndexOf(c, k)].timestamp)

\* A variant that leaves the order alone.
move_to_end_none(c, k) == c

\* OrderedDict.move_to_end
move_to_end(c, k) ==
    LET i == IndexOf(c, k) IN
    IF i = 0 THEN c
    ELSE SelectSeq(c, LAMBDA x : x.key # k) \o << c[i] >>

\* OrderedDict.__setitem__: a key already present keeps its place.
SetItem(c, k, e, by) ==
    LET i == IndexOf(c, k) IN
    IF i = 0 THEN Append(c, Item(k, e, by)) ELSE [c EXCEPT ![i] = Item(k, e, by)]

\* History: what wrote the entry of k, "none" when there is none.
WrittenBy(c, k) == IF IndexOf(c, k) = 0 THEN "none" ELSE c[IndexOf(c, k)].by

\* A variant that removes the oldest entry, whatever its key.
DelItem_oldest(c, k) == IF c = << >> THEN c ELSE Tail(c)

\* OrderedDict.__delitem__
DelItem(c, k) == SelectSeq(c, LAMBDA x : x.key # k)

\* A variant that never evicts.
cleanup_cache_none(c, m) == c

\* SafeCache._cleanup_cache
RECURSIVE cleanup_cache(_, _)
cleanup_cache(c, m) == IF Len(c) > m THEN cleanup_cache(Tail(c), m) ELSE c

KeysOf(c) == {c[i].key : i \in 1..Len(c)}

\* ------------------------------------------------------------------ tasks
\* pc: "idle" (no call), "wait" (suspended in Lock.acquire), "fetch"
\* (suspended in the awaited fetch), "done" (returning to the caller).
\* entry is the local of the same name; ret is the outcome delivered to the
\* caller and how the path that produced it; fetched the fetch functions
\* the call has invoked.  seen0 is the data of the entry that was fresh for
\* the call when it was made (for get_or_update the entry a set wrote for
\* its key, for the ETF wrapper the entry a fallback fetch wrote), while
\* that entry stays untouched; served is
\* the data another caller's fetch stored for the key while this call was
\* waiting, while that entry stays untouched and unexpired;
\* evicted holds the keys the call's insert pushed out and before the
\* value of scn when it inserted.  lost tells
\* that an invalidate which began during this task's fetch has completed;
\* racing holds the tasks whose fetch was in flight when this invalidate
\* was called.  lk is the local lock of the un_nickname functions.
IdleTask ==
    [pc |-> "idle", op |-> "none", key |-> "none", ttl |-> 0, data |-> None,
     phase |-> 0, entry |-> NoEntry, ret |-> "none", how |-> "none",
     fetched |-> {}, evicted |-> {}, before |-> << >>,
     seen0 |-> "none", served |-> "none", lost |-> FALSE, racing |-> {},
     lk |-> 0]

FreshData(e, ttl) == IF e.present /\ ~is_expired(e, ttl) THEN e.data ELSE "none"

InFetch(k) == {u \in Tasks : tasks[u].pc = "fetch" /\ tasks[u].key = k}

NewCall(op, key, ttl, data) ==
    [IdleTask EXCEPT !.op = op, !.key = key, !.ttl = ttl, !.data = data,
        !.phase = IF op = "etf" THEN 1 ELSE 0,
        !.seen0 = IF op = "get_or_update" /\ WrittenBy(cache, key) = "set"
                  THEN FreshData(Lookup(cache, key), ttl)
                  ELSE IF op = "etf" /\ WrittenBy(cache, FallbackKey) = "fallback"
                       THEN FreshData(Lookup(cache, FallbackKey), ttl)
                  ELSE "none",
        !.racing = IF op = "invalidate" THEN InFetch(key) ELSE {}]

\* The coroutine returns r (or raises, r = Raised) to its caller.
Finish(tk, how, r) == [tk EXCEPT !.pc = "done", !.ret = r, !.how = how]

\* A variant in which the wrapper's second call passes primary_fetch again.
FetchFunc_primary(tk) == "primary"

\* The fetch function a get_or_update call was given: the wrapper's second
\* call passes fallback_fetch, every other call passes its primary fetch.
FetchFunc(tk) == IF tk.phase = 2 THEN "fallback" ELSE "primary"

\* The key whose untouched entry seen0 of a waiting call refers to.
SeenKey(tk) == IF tk.op = "etf" THEN FallbackKey ELSE tk.key

\* History bookkeeping when the entries of the keys in ks are removed or
\* replaced: the calls that saw them fresh no longer count on them.
Touched(ts, ks) ==
    [u \in Tasks |->
        [ts[u] EXCEPT !.seen0 = IF SeenKey(ts[u]) \in ks THEN "none" ELSE @,
                      !.served = IF ts[u].key \in ks THEN "none" ELSE @]]

\* History bookkeeping when the fetch of t ends: no invalidate races it now.
Unrace(ts, t) == [u \in Tasks |-> [ts[u] EXCEPT !.racing = @ \ {t}]]

\* History bookkeeping when a fetch stored v for key k: the callers waiting
\* for k have been served.
Served(ts, k, v) ==
    [u \in Tasks |->
        IF ts[u].pc = "wait" /\ ts[u].key = k /\ ts[u].op \in {"get_or_update", "etf"}
        THEN [ts[u] EXCEPT !.served = v] ELSE ts[u]]

\* History bookkeeping when the clock reaches n.
Expired(ts, c, n) ==
    [u \in Tasks |->
        IF ts[u].served # "none" /\ n - Lookup(c, ts[u].key).timestamp > ts[u].ttl
        THEN [ts[u] EXCEPT !.served = "none"] ELSE ts[u]]

\* A coroutine of a manager run.  cache is the named cache a populate
\* works on; sub tells, for clear_all_caches and get_cache_stats, how far
\* the operation on each named cache is: "none" (not started), "ready"
\* (a task gather has scheduled), "wait" (suspended in Lock.acquire),
\* "done"; stats holds the total_entries collected.  inserted tells that a
\* populate stored an entry since the call began, blocked which of its
\* per-cache operations had to wait for a lock.
IdleMgr ==
    [pc |-> "idle", op |-> "none", cache |-> "none",
     sub |-> [c \in CacheNames |-> "none"],
     stats |-> [c \in CacheNames |-> -1],
     entry |-> NoEntry, ret |-> "none", inserted |-> FALSE, blocked |-> {}]

\* _mute_cache, lines 20-22: no tuple for a group, or its tuple.
NoMute == [present |-> FALSE, time |-> 0, is_muted |-> FALSE, end |-> 0]
MuteEntry(ct, m, e) == [present |-> TRUE, time |-> ct, is_muted |-> m, end |-> e]

\* A hook that is not running; a running one keeps its group_id and its
\* current_time.
IdleMute == [pc |-> "idle", group |-> "none", current_time |-> 0, ret |-> "none"]

\* No call of the API yet.
Never == -1

\* The state after construction, for a run drawn from the set U.
InitIn(U) ==
    /\ universe \in U
    /\ now = 0
    /\ cache = << >>
    /\ max_size \in universe.sizes
    /\ lock = NewLock
    /\ tasks = [t \in Tasks |-> IdleTask]
    /\ scn = IF universe.lru THEN << >> ELSE << "off" >>
    /\ nickname_cache = [g \in Groups |-> NoEntry]
    /\ cache_locks = [g \in Groups |-> 0]
    /\ _global_lock = NewLock
    /\ locks = [i \in LockIds |-> NewLock]
    /\ invalidated = {}
    /\ mcaches = [c \in CacheNames |-> << >>]
    /\ mlocks = [c \in CacheNames |-> NewLock]
    /\ mtasks = [t \in Tasks |-> IdleMgr]
    /\ _mute_cache = [g \in MuteGroups |-> NoMute]
    /\ mute_tasks = [t \in Tasks |-> IdleMute]
    /\ last_query = [g \in MuteGroups |-> Never]

Init == InitIn(FundUniverses \cup NickUniverses \cup MgrUniverses \cup MuteUniverses)

\* History of touches.  scn lists the cached keys, least recently touched
\* first, as long as the cache has only seen inserts of keys it did not hold
\* and reads that hit since it was last empty; otherwise it is Off.
Off == << "off" >>

\* The history restarts on an empty cache, in the runs that record it.
Restart == IF universe.lru THEN << >> ELSE Off

ScnRead(q, k) == IF q = Off THEN Off ELSE SelectSeq(q, LAMBDA x : x # k) \o << k >>

\* An insert of k into cache c, leaving cache d, under capacity m.
ScnInsert(q, c, d, k, m) ==
    IF d = << >> THEN Restart
    ELSE IF q = Off \/ IndexOf(c, k) # 0 THEN Off
    ELSE IF Len(q) < m THEN Append(q, k)
    ELSE Append(Tail(q), k)

ScnRemove(q, c, d) == IF d = << >> THEN Restart ELSE IF d = c THEN q ELSE Off

\* ------------------------------------------------------- SafeCache bodies
\* get_or_update, lines 70-79: the lookup under the lock; a hit returns,
\* a miss leaves the task awaiting fetch_func with the lock held.
GouCheck(t, tk, lk) ==
    LET entry == Lookup(cache, tk.key) IN
    IF entry.present /\ ~is_expired(entry, tk.ttl)
    THEN /\ cache' = move_to_end(cache, tk.key)
         /\ lock' = Release(lk)
         /\ tasks' = [tasks EXCEPT ![t] = Finish(tk, "hit", entry.data)]
         /\ scn' = ScnRead(scn, tk.key)
    ELSE /\ cache' = cache
         /\ lock' = lk
         /\ tasks' = [tasks EXCEPT ![t] =
                [tk EXCEPT !.pc = "fetch", !.entry = entry,
                           !.fetched = @ \cup {FetchFunc(tk)}]]
         /\ UNCHANGED scn

\* get, lines 116-121
GetBody(t, tk, lk) ==
    LET entry == Lookup(cache, tk.key) IN
    /\ cache' = IF entry.present THEN move_to_end(cache, tk.key) ELSE cache
    /\ lock' = Release(lk)
    /\ tasks' = [tasks EXCEPT ![t] =
            Finish(tk, "get", IF entry.present THEN entry.data ELSE None)]
    /\ scn' = IF entry.present THEN ScnRead(scn, tk.key) ELSE scn

\* The store of set and of get_or_update: lines 131-133 and 83-87.
Store(c, k, v, by) == cleanup_cache(SetItem(c, k, CacheEntry(v, now), by), max_size)

\* The keys whose entry a step from cache c to cache d removed or replaced.
Gone(c, d) == {k \in Keys : Lookup(c, k).present /\ Lookup(d, k) # Lookup(c, k)}

\* set, lines 131-133
SetBody(t, tk, lk) ==
    LET d == Store(cache, tk.key, tk.data, "set") IN
    /\ cache' = d
    /\ lock' = Release(lk)
    /\ tasks' = Touched([tasks EXCEPT ![t] =
                            [Finish(tk, "set", None) EXCEPT
                                !.evicted = Gone(cache, d) \ {tk.key}, !.before = scn]],
                        Gone(cache, d) \cup {tk.key})
    /\ scn' = ScnInsert(scn, cache, d, tk.key, max_size)

\* invalidate, lines 145-149
InvalidateBody(t, tk, lk) ==
    /\ cache' = DelItem(cache, tk.key)
    /\ lock' = Release(lk)
    /\ tasks' = Touched(
          [u \in Tasks |->
              IF u = t
              THEN Finish(tk, "invalidate",
                          IF IndexOf(cache, tk.key) # 0 THEN "True" ELSE "False")
              ELSE IF u \in tk.racing /\ tasks[u].pc = "fetch"
                   THEN [tasks[u] EXCEPT !.lost = TRUE]
              ELSE tasks[u]],
          {tk.key})
    /\ scn' = ScnRemove(scn, cache, DelItem(cache, tk.key))

\* clear, lines 154-155
ClearBody(t, tk, lk) ==
    /\ cache' = << >>
    /\ lock' = Release(lk)
    /\ tasks' = Touched([tasks EXCEPT ![t] = Finish(tk, "clear", None)], Keys)
    /\ scn' = Restart

\* t holds self._lock (lk): run the method up to its next suspension.
Enter(t, tk, lk) ==
    CASE tk.op \in {"get_or_update", "etf"} -> GouCheck(t, tk, lk)
      [] tk.op = "get" -> GetBody(t, tk, lk)
      [] tk.op = "set" -> SetBody(t, tk, lk)
      [] tk.op = "invalidate" -> InvalidateBody(t, tk, lk)
      [] tk.op = "clear" -> ClearBody(t, tk, lk)

\* async with self._lock, from lock state l: take it and go on, or queue.
WithLock(t, tk, l) ==
    IF CanAcquire(l)
    THEN Enter(t, tk, AcquireNow(l))
    ELSE /\ cache' = cache
         /\ lock' = Enqueue(l, t)
         /\ tasks' = [tasks EXCEPT ![t] = [tk EXCEPT !.pc = "wait"]]
         /\ UNCHANGED scn

\* A value is handed to its caller as soon as the coroutine returns.
NoneDone == \A u \in Tasks : tasks[u].pc # "done"

\* A call starts in the first free coroutine slot.
FreeSlot(t) == tasks[t].pc = "idle" /\ \A u \in Tasks : u < t => tasks[u].pc # "idle"

Issue(t, tk) ==
    /\ universe.plugin = "fund"
    /\ NoneDone
    /\ FreeSlot(t)
    /\ WithLock(t, tk, lock)
    /\ UNCHANGED <<universe, now, max_size, nickVars, mgrVars, muteVars>>

\* ------------------------------------------------------ SafeCache actions
get_or_update(t, k, ttl) == Issue(t, NewCall("get_or_update", k, ttl, None))

get(t, k) == Issue(t, NewCall("get", k, 0, None))

set(t, k, v) == Issue(t, NewCall("set", k, 0, v))

invalidate(t, k) == Issue(t, NewCall("invalidate", k, 0, None))

clear(t) == Issue(t, NewCall("clear", "none", 0, None))

\* get_etf_spot_data_cached, lines 258-267: the call on the primary key.
get_etf_spot_data_cached(t, ttl) == Issue(t, NewCall("etf", PrimaryKey, ttl, None))

\* The future a task awaits in Lock.acquire is resolved: it takes the lock.
LockAcquired(t) ==
    /\ universe.plugin = "fund"
    /\ NoneDone
    /\ tasks[t].pc = "wait"
    /\ Woken(lock, t)
    /\ Enter(t, tasks[t], ResumeAcquire(lock, t))
    /\ UNCHANGED <<universe, now, max_size, nickVars, mgrVars, muteVars>>

\* get_or_update, lines 82-90: fetch_func returned new_data.
FetchReturn(t, v) ==
    LET tk == tasks[t]
        d == Store(cache, tk.key, v, FetchFunc(tk)) IN
    /\ universe.plugin = "fund"
    /\ NoneDone
    /\ tk.pc = "fetch"
    /\ cache' = d
    /\ lock' = Release(lock)
    /\ tasks' = Unrace(Served(Touched([tasks EXCEPT ![t] =
                                   [Finish(tk, "stored", v) EXCEPT
                                       !.evicted = Gone(cache, d) \ {tk.key}, !.before = scn]],
                               Gone(cache, d) \cup {tk.key}),
                       tk.key, v), t)
    /\ scn' = ScnInsert(scn, cache, d, tk.key, max_size)
    /\ UNCHANGED <<universe, now, max_size, nickVars, mgrVars, muteVars>>

\* Variants of the test of line 97: one that serves no old entry, one
\* that serves whatever the local holds.
StaleUsable_never(entry) == FALSE

StaleUsable_always(entry) == TRUE

\* get_or_update, line 97: the old entry is served if it carries data.
StaleUsable(entry) == entry.present /\ entry.data # None

\* get_or_update, lines 92-104, and the except clause of
\* get_etf_spot_data_cached, lines 268-281: fetch_func raised.
FetchRaise(t) ==
    LET tk == tasks[t] IN
    /\ universe.plugin = "fund"
    /\ NoneDone
    /\ tk.pc = "fetch"
    /\ scn' = IF cache = << >> THEN Restart ELSE Off
    /\ IF StaleUsable(tk.entry)
       THEN /\ lock' = Release(lock)
            /\ tasks' = Unrace([tasks EXCEPT ![t] = Finish(tk, "stale", tk.entry.data)], t)
            /\ cache' = cache
       ELSE IF tk.op = "etf" /\ tk.phase = 1
       THEN IF EnableFallback
            THEN LET l == Release(lock)
                     tk2 == [tk EXCEPT !.phase = 2, !.key = FallbackKey, !.entry = NoEntry,
                                       !.served = "none", !.lost = FALSE] IN
                 IF CanAcquire(l)
                 THEN LET entry == Lookup(cache, FallbackKey) IN
                      IF entry.present /\ ~is_expired(entry, tk.ttl)
                      THEN /\ cache' = move_to_end(cache, FallbackKey)
                           /\ lock' = l
                           /\ tasks' = Unrace([tasks EXCEPT ![t] = Finish(tk2, "hit", entry.data)], t)
                      ELSE /\ cache' = cache
                           /\ lock' = AcquireNow(l)
                           /\ tasks' = Unrace([tasks EXCEPT ![t] =
                                 [tk2 EXCEPT !.pc = "fetch", !.entry = entry,
                                             !.fetched = @ \cup {FetchFunc(tk2)}]], t)
                 ELSE /\ cache' = cache
                      /\ lock' = Enqueue(l, t)
                      /\ tasks' = Unrace([tasks EXCEPT ![t] = [tk2 EXCEPT !.pc = "wait"]], t)
            ELSE /\ lock' = Release(lock)
                 /\ tasks' = Unrace([tasks EXCEPT ![t] = Finish(tk, "disabled", None)], t)
                 /\ cache' = cache
       ELSE /\ lock' = Release(lock)
            /\ tasks' = Unrace([tasks EXCEPT ![t] = Finish(tk, "raise", Raised)], t)
            /\ cache' = cache
    /\ UNCHANGED <<universe, now, max_size, nickVars, mgrVars, muteVars>>

\* A variant in which the lock stays held when the holder is cancelled.
CancelExit_leak(l) == l

\* async with self._lock, left by CancelledError: __aexit__ releases.
CancelExit(l) == Release(l)

\* get_or_update, line 83: the task is cancelled while it awaits
\* fetch_func.  CancelledError is no Exception: neither the except clause
\* of get_or_update nor that of get_etf_spot_data_cached catches it.
FetchCancel(t) ==
    LET tk == tasks[t] IN
    /\ universe.plugin = "fund"
    /\ NoneDone
    /\ tk.pc = "fetch"
    /\ lock' = CancelExit(lock)
    /\ tasks' = Unrace([tasks EXCEPT ![t] = Finish(tk, "cancelled", "cancelled")], t)
    /\ UNCHANGED <<universe, now, cache, max_size, scn, nickVars, mgrVars, muteVars>>

\* The caller takes the outcome; the coroutine is gone.
Return(t) ==
    /\ tasks[t].pc = "done"
    /\ tasks' = [tasks EXCEPT ![t] = IdleTask]
    /\ UNCHANGED <<universe, now, fundVars, nickVars, mgrVars, muteVars>>

\* The shortest ttl a call may pass.
MinTtl == 1

\* The clock advances while every task is idle or suspended; a task whose
\* future is resolved runs before any time passes.
Tick ==
    /\ universe.plugin = "fund"
    /\ NoneDone
    /\ now < universe.clock
    /\ \A t \in Tasks : ~Woken(lock, t)
    /\ now' = now + 1
    /\ tasks' = Expired(tasks, cache, now + 1)
    /\ UNCHANGED <<universe, cache, max_size, lock, scn, nickVars, mgrVars, muteVars>>

NextFund ==
    \/ \E t \in universe.tasks, k \in universe.keys, ttl \in MinTtl..MaxTtl : get_or_update(t, k, ttl)
    \/ \E t \in universe.tasks, k \in universe.keys : get(t, k)
    \/ \E t \in universe.tasks, k \in universe.keys, v \in universe.data : set(t, k, v)
    \/ \E t \in universe.tasks, k \in universe.keys : invalidate(t, k)
    \/ \E t \in universe.tasks : clear(t)
    \/ \E t \in universe.tasks, ttl \in MinTtl..MaxTtl : get_etf_spot_data_cached(t, ttl)
    \/ \E t \in Tasks : LockAcquired(t)
    \/ \E t \in Tasks, v \in universe.data : FetchReturn(t, v)
    \/ \E t \in Tasks : FetchRaise(t)
    \/ \E t \in Tasks : FetchCancel(t)
    \/ \E t \in Tasks : Return(t)
    \/ Tick

\* ------------------------------------------------------------ un_nickname
\* An entry of _nickname_cache is (expires_at, map): timestamp holds
\* expires_at and data the map.
NickEntry(expires_at, map) == [present |-> TRUE, data |-> map, timestamp |-> expires_at]

\* Lines 114 and 122: cached and time() < cached[0].
NickFresh(cached) == cached.present /\ now < cached.timestamp

\* A lock object nothing refers to: not registered, not held, not awaited.
Unused(i) ==
    /\ \A g \in Groups : cache_locks[g] # i
    /\ ~locks[i].locked
    /\ locks[i].waiters = << >>

\* asyncio.Lock(): a new object.
FreshLock == CHOOSE i \in LockIds : Unused(i) /\ \A j \in LockIds : Unused(j) => i <= j

\* A variant without the registry lookups: every caller gets a new object.
get_group_lock_new(g) == FreshLock

\* _get_group_lock, lines 69-79.  _global_lock is free whenever a task
\* runs, since no task suspends while it holds it: the function never
\* waits, and runs as part of its caller's step.
get_group_lock(g) == IF cache_locks[g] # 0 THEN cache_locks[g] ELSE FreshLock

RegistryWith(g) == [cache_locks EXCEPT ![g] = get_group_lock(g)]

\* A variant of the exit that leaves the guard taken.
GuardExit_leak(l) == l

\* async with _global_lock, lines 74 and 89: __aexit__ releases the guard.
GuardExit(l) == Release(l)

\* The guard l after a pass through async with _global_lock: the blocks of
\* lines 74-79 and 89-92 contain no await, so the task that enters leaves
\* in the same step.
Guarded(l) == GuardExit(AcquireNow(l))

\* The guard after _get_group_lock(g): lines 70-72 return a registered lock
\* without touching it.
GuardAfterGet(g) == IF cache_locks[g] # 0 THEN _global_lock ELSE Guarded(_global_lock)

\* A variant that removes the lock whether it is held or not.
try_remove_group_lock_always(r, ls, g) == [r EXCEPT ![g] = 0]

\* _try_remove_group_lock, lines 89-92, on registry r and lock objects ls.
try_remove_group_lock(r, ls, g) ==
    IF r[g] # 0 /\ ~ls[r[g]].locked THEN [r EXCEPT ![g] = 0] ELSE r

\* History bookkeeping for the tasks of the un_nickname runs.
NickTouched(ts, g) ==
    [u \in Tasks |-> IF ts[u].key = g THEN [ts[u] EXCEPT !.served = "none"] ELSE ts[u]]

NickServed(ts, g, m) ==
    [u \in Tasks |->
        IF ts[u].pc = "wait" /\ ts[u].key = g /\ ts[u].op = "get_map"
        THEN [ts[u] EXCEPT !.served = m] ELSE ts[u]]

NickExpired(ts, c, n) ==
    [u \in Tasks |->
        IF ts[u].served # "none" /\ ~(n < c[ts[u].key].timestamp)
        THEN [ts[u] EXCEPT !.served = "none"] ELSE ts[u]]

\* _get_cached_nickname_map, lines 121-126, holding lock i (its state lk).
MapCheck(t, tk, i, lk) ==
    LET cached == nickname_cache[tk.key] IN
    IF NickFresh(cached)
    THEN /\ locks' = [locks EXCEPT ![i] = Release(lk)]
         /\ tasks' = [tasks EXCEPT ![t] = Finish(tk, "hit", cached.data)]
    ELSE /\ locks' = [locks EXCEPT ![i] = lk]
         /\ tasks' = [tasks EXCEPT ![t] =
                [tk EXCEPT !.pc = "fetch", !.entry = cached, !.fetched = {"primary"}]]

\* _invalidate_cache, lines 103-107, holding lock i (its state lk), with
\* registry r and guard gl: delete, release, then _try_remove_group_lock.
InvalidateNick(t, tk, i, lk, r, gl) ==
    LET ls == [locks EXCEPT ![i] = Release(lk)] IN
    /\ CanAcquire(gl)
    /\ _global_lock' = Guarded(gl)
    /\ nickname_cache' = [nickname_cache EXCEPT ![tk.key] = NoEntry]
    /\ locks' = ls
    /\ cache_locks' = try_remove_group_lock(r, ls, tk.key)
    /\ tasks' = NickTouched(
          [u \in Tasks |->
              IF u = t THEN Finish(tk, "invalidate", None)
              ELSE IF u \in tk.racing /\ tasks[u].pc = "fetch"
                   THEN [tasks[u] EXCEPT !.lost = TRUE]
              ELSE tasks[u]],
          tk.key)

NickIssue(t) ==
    /\ universe.plugin = "un_nickname"
    /\ NoneDone
    /\ FreeSlot(t)
    /\ UNCHANGED <<universe, now, fundVars, mgrVars, muteVars>>

\* _get_cached_nickname_map, lines 113-124: up to the first suspension.
get_cached_nickname_map(t, g) ==
    LET tk == [IdleTask EXCEPT !.op = "get_map", !.key = g, !.lk = get_group_lock(g)]
        cached == nickname_cache[g]
        i == get_group_lock(g) IN
    /\ NickIssue(t)
    /\ UNCHANGED invalidated
    /\ IF NickFresh(cached)
       THEN /\ tasks' = [tasks EXCEPT ![t] = Finish([tk EXCEPT !.lk = 0], "fast", cached.data)]
            /\ UNCHANGED <<nickname_cache, cache_locks, _global_lock, locks>>
       ELSE /\ CanAcquire(_global_lock)
            /\ _global_lock' = GuardAfterGet(g)
            /\ cache_locks' = RegistryWith(g)
            /\ nickname_cache' = nickname_cache
            /\ IF CanAcquire(locks[i])
               THEN MapCheck(t, tk, i, AcquireNow(locks[i]))
               ELSE /\ locks' = [locks EXCEPT ![i] = Enqueue(@, t)]
                    /\ tasks' = [tasks EXCEPT ![t] = [tk EXCEPT !.pc = "wait"]]

\* _invalidate_cache, lines 101-107: up to the first suspension.
invalidate_cache(t, g) ==
    LET tk == [IdleTask EXCEPT !.op = "invalidate_cache", !.key = g,
                               !.lk = get_group_lock(g), !.racing = InFetch(g)]
        i == get_group_lock(g) IN
    /\ NickIssue(t)
    /\ invalidated' = invalidated \cup {g}
    /\ IF CanAcquire(locks[i])
       THEN InvalidateNick(t, tk, i, AcquireNow(locks[i]), RegistryWith(g), GuardAfterGet(g))
       ELSE /\ CanAcquire(_global_lock)
            /\ _global_lock' = GuardAfterGet(g)
            /\ cache_locks' = RegistryWith(g)
            /\ nickname_cache' = nickname_cache
            /\ locks' = [locks EXCEPT ![i] = Enqueue(@, t)]
            /\ tasks' = [tasks EXCEPT ![t] = [tk EXCEPT !.pc = "wait"]]

\* async with lock, after the wait: lines 119 and 102.
NickLockAcquired(t) ==
    LET tk == tasks[t]
        i == tk.lk IN
    /\ universe.plugin = "un_nickname"
    /\ NoneDone
    /\ tk.pc = "wait"
    /\ Woken(locks[i], t)
    /\ IF tk.op = "get_map"
       THEN /\ MapCheck(t, tk, i, ResumeAcquire(locks[i], t))
            /\ UNCHANGED <<nickname_cache, cache_locks, _global_lock>>
       ELSE InvalidateNick(t, tk, i, ResumeAcquire(locks[i], t), cache_locks, _global_lock)
    /\ UNCHANGED <<universe, now, fundVars, mgrVars, invalidated, muteVars>>

\* _get_cached_nickname_map, lines 139-150: fetch_group_nickname_map
\* returned rows that make up map m.
NickFetchReturn(t, m) ==
    LET tk == tasks[t]
        ttl == IF m # EmptyMap THEN CACHE_TTL ELSE EMPTY_CACHE_TTL IN
    /\ universe.plugin = "un_nickname"
    /\ NoneDone
    /\ tk.pc = "fetch"
    /\ nickname_cache' = [nickname_cache EXCEPT ![tk.key] = NickEntry(now + ttl, m)]
    /\ locks' = [locks EXCEPT ![tk.lk] = Release(@)]
    /\ tasks' = Unrace(NickServed(NickTouched([tasks EXCEPT ![t] = Finish(tk, "stored", m)],
                                              tk.key),
                                  tk.key, m), t)
    /\ UNCHANGED <<universe, now, fundVars, mgrVars, cache_locks, _global_lock, invalidated, muteVars>>

\* _get_cached_nickname_map, lines 129-137: the query raised sqlite3.Error.
NickFetchDbError(t) ==
    LET tk == tasks[t] IN
    /\ universe.plugin = "un_nickname"
    /\ NoneDone
    /\ tk.pc = "fetch"
    /\ locks' = [locks EXCEPT ![tk.lk] = Release(@)]
    /\ IF tk.entry.present
       THEN /\ nickname_cache' = nickname_cache
            /\ tasks' = Unrace([tasks EXCEPT ![t] = Finish(tk, "stale", tk.entry.data)], t)
       ELSE /\ nickname_cache' = [nickname_cache EXCEPT ![tk.key] =
                                      NickEntry(now + EMPTY_CACHE_TTL, EmptyMap)]
            /\ tasks' = Unrace(NickTouched([tasks EXCEPT ![t] =
                                                Finish(tk, "negative", EmptyMap)],
                                            tk.key), t)
    /\ UNCHANGED <<universe, now, fundVars, mgrVars, cache_locks, _global_lock, invalidated, muteVars>>

\* _get_cached_nickname_map, line 128: the task is cancelled while it
\* awaits the query; async with lock releases on the way out.
NickFetchCancel(t) ==
    LET tk == tasks[t] IN
    /\ universe.plugin = "un_nickname"
    /\ NoneDone
    /\ tk.pc = "fetch"
    /\ locks' = [locks EXCEPT ![tk.lk] = CancelExit(@)]
    /\ tasks' = Unrace([tasks EXCEPT ![t] = Finish(tk, "cancelled", "cancelled")], t)
    /\ UNCHANGED <<universe, now, fundVars, mgrVars, nickname_cache, cache_locks, _global_lock, invalidated, muteVars>>

\* The instants the clock of an un_nickname run visits: the start, and the
\* ends of the two TTLs counted from it.
NextTime(n) == IF n < EMPTY_CACHE_TTL THEN EMPTY_CACHE_TTL ELSE CACHE_TTL

NickTick ==
    /\ universe.plugin = "un_nickname"
    /\ NoneDone
    /\ now < CACHE_TTL
    /\ \A t \in Tasks : tasks[t].pc = "wait" => ~Woken(locks[tasks[t].lk], t)
    /\ now' = NextTime(now)
    /\ tasks' = NickExpired(tasks, nickname_cache, NextTime(now))
    /\ UNCHANGED <<universe, fundVars, nickVars, mgrVars, muteVars>>

NextNick ==
    \/ \E t \in universe.tasks, g \in universe.keys : get_cached_nickname_map(t, g)
    \/ \E t \in universe.tasks, g \in universe.keys : invalidate_cache(t, g)
    \/ \E t \in Tasks : NickLockAcquired(t)
    \/ \E t \in Tasks, m \in universe.data : NickFetchReturn(t, m)
    \/ \E t \in Tasks : NickFetchDbError(t)
    \/ \E t \in Tasks : NickFetchCancel(t)
    \/ \E t \in Tasks : Return(t)
    \/ NickTick

\* ------------------------------------------------- FundDataCacheManager
MgrNoneDone == \A u \in Tasks : mtasks[u].pc # "done"

MgrFreeSlot(t) ==
    mtasks[t].pc = "idle" /\ \A u \in Tasks : u < t => mtasks[u].pc # "idle"

MgrIssue(t) ==
    /\ universe.plugin = "manager"
    /\ MgrNoneDone
    /\ MgrFreeSlot(t)
    /\ UNCHANGED <<universe, now, tasks, fundVars, nickVars, muteVars>>

MgrResume ==
    /\ universe.plugin = "manager"
    /\ MgrNoneDone
    /\ UNCHANGED <<universe, now, tasks, fundVars, nickVars, muteVars>>

\* History bookkeeping: a populate stored an entry.
MgrInserted(ts) ==
    [u \in Tasks |-> IF ts[u].pc \in {"idle", "done"} THEN ts[u]
                     ELSE [ts[u] EXCEPT !.inserted = TRUE]]

\* SafeCache.get_or_update on named cache c, lines 68-83, holding its lock
\* (state lk): a hit returns, a miss awaits the fetch with the lock held.
MgrGouCheck(t, tk, c, lk) ==
    LET entry == Lookup(mcaches[c], MgrKey) IN
    IF entry.present /\ ~is_expired(entry, MinTtl)
    THEN /\ mlocks' = [mlocks EXCEPT ![c] = Release(lk)]
         /\ mtasks' = [mtasks EXCEPT ![t] = [tk EXCEPT !.pc = "done", !.ret = entry.data]]
         /\ mcaches' = [mcaches EXCEPT ![c] = move_to_end(@, MgrKey)]
    ELSE /\ mlocks' = [mlocks EXCEPT ![c] = lk]
         /\ mtasks' = [mtasks EXCEPT ![t] = [tk EXCEPT !.pc = "fetch", !.entry = entry]]
         /\ mcaches' = mcaches

\* A caller of one of the cached data functions: get_or_update on the
\* named cache c.
populate(t, c) ==
    LET tk == [IdleMgr EXCEPT !.op = "populate", !.cache = c] IN
    /\ MgrIssue(t)
    /\ IF CanAcquire(mlocks[c])
       THEN MgrGouCheck(t, tk, c, AcquireNow(mlocks[c]))
       ELSE /\ mlocks' = [mlocks EXCEPT ![c] = Enqueue(@, t)]
            /\ mtasks' = [mtasks EXCEPT ![t] = [tk EXCEPT !.pc = "wait"]]
            /\ mcaches' = mcaches

PopulateAcquired(t) ==
    LET tk == mtasks[t]
        c == tk.cache IN
    /\ MgrResume
    /\ tk.op = "populate"
    /\ tk.pc = "wait"
    /\ Woken(mlocks[c], t)
    /\ MgrGouCheck(t, tk, c, ResumeAcquire(mlocks[c], t))

\* get_or_update, lines 82-90, on a named cache.
PopulateReturn(t, v) ==
    LET tk == mtasks[t]
        c == tk.cache IN
    /\ MgrResume
    /\ tk.pc = "fetch"
    /\ mcaches' = [mcaches EXCEPT ![c] = Store(@, MgrKey, v, "primary")]
    /\ mlocks' = [mlocks EXCEPT ![c] = Release(@)]
    /\ mtasks' = MgrInserted([mtasks EXCEPT ![t] = [tk EXCEPT !.pc = "done", !.ret = v]])

\* get_or_update, lines 92-104, on a named cache: the fetch raised.
PopulateRaise(t) ==
    LET tk == mtasks[t]
        c == tk.cache IN
    /\ MgrResume
    /\ tk.pc = "fetch"
    /\ mcaches' = mcaches
    /\ mlocks' = [mlocks EXCEPT ![c] = Release(@)]
    /\ mtasks' = [mtasks EXCEPT ![t] =
            [tk EXCEPT !.pc = "done",
                       !.ret = IF StaleUsable(tk.entry) THEN tk.entry.data ELSE Raised]]

\* clear_all_caches, lines 216-221: asyncio.gather wraps the four clear()
\* coroutines in tasks, which the event loop then runs in that order.
clear_all_caches(t) ==
    /\ MgrIssue(t)
    /\ mtasks' = [mtasks EXCEPT ![t] =
            [IdleMgr EXCEPT !.op = "clear_all", !.pc = "gather",
                            !.sub = [c \in CacheNames |-> "ready"]]]
    /\ UNCHANGED <<mcaches, mlocks>>

\* The named cache whose scheduled clear() runs next.
NextReady(tk) ==
    LET i == CHOOSE j \in 1..Len(CacheOrder) :
                 /\ tk.sub[CacheOrder[j]] = "ready"
                 /\ \A k \in 1..(j - 1) : tk.sub[CacheOrder[k]] # "ready"
    IN CacheOrder[i]

\* SafeCache.clear, lines 153-155, as a task of gather: it runs up to
\* async with self._lock, and on through the clear if the lock is free.
ClearRun(t) ==
    LET tk == mtasks[t]
        c == NextReady(tk) IN
    /\ MgrResume
    /\ tk.op = "clear_all"
    /\ \E d \in CacheNames : tk.sub[d] = "ready"
    /\ IF CanAcquire(mlocks[c])
       THEN /\ mcaches' = [mcaches EXCEPT ![c] = << >>]
            /\ mlocks' = [mlocks EXCEPT ![c] = Release(AcquireNow(@))]
            /\ mtasks' = [mtasks EXCEPT ![t] = [tk EXCEPT !.sub[c] = "done"]]
       ELSE /\ mcaches' = mcaches
            /\ mlocks' = [mlocks EXCEPT ![c] = Enqueue(@, t)]
            /\ mtasks' = [mtasks EXCEPT ![t] =
                    [tk EXCEPT !.sub[c] = "wait", !.blocked = @ \cup {c}]]

\* SafeCache.clear, lines 153-155, after the wait for the lock of c.
ClearAcquired(t, c) ==
    LET tk == mtasks[t] IN
    /\ MgrResume
    /\ tk.op = "clear_all"
    /\ tk.sub[c] = "wait"
    /\ Woken(mlocks[c], t)
    /\ mcaches' = [mcaches EXCEPT ![c] = << >>]
    /\ mlocks' = [mlocks EXCEPT ![c] = Release(ResumeAcquire(@, t))]
    /\ mtasks' = [mtasks EXCEPT ![t] = [tk EXCEPT !.sub[c] = "done"]]

\* A variant that completes with the first child.
GatherDone_any(sub) == \E c \in CacheNames : sub[c] = "done"

\* asyncio.gather: its future completes when every child has.
GatherDone(sub) == \A c \in CacheNames : sub[c] = "done"

\* clear_all_caches, lines 216-222: await asyncio.gather(...) returns.
ClearAllReturn(t) ==
    LET tk == mtasks[t] IN
    /\ MgrResume
    /\ tk.op = "clear_all"
    /\ tk.pc = "gather"
    /\ GatherDone(tk.sub)
    /\ mtasks' = [mtasks EXCEPT ![t] = [tk EXCEPT !.pc = "done", !.ret = None]]
    /\ UNCHANGED <<mcaches, mlocks>>

\* get_cache_stats, lines 207-212, from the i-th named cache on with lock
\* states ls: each get_stats() (lines 163-182) is awaited before the next
\* is called.  Yields the task record and the lock states.
RECURSIVE StatsFrom(_, _, _, _)
StatsFrom(t, tk, ls, i) ==
    IF i > Len(CacheOrder)
    THEN [tk |-> [tk EXCEPT !.pc = "done", !.ret = "stats"], ls |-> ls]
    ELSE LET c == CacheOrder[i] IN
         IF CanAcquire(ls[c])
         THEN StatsFrom(t, [tk EXCEPT !.sub[c] = "done", !.stats[c] = Len(mcaches[c])],
                        [ls EXCEPT ![c] = Release(AcquireNow(@))], i + 1)
         ELSE [tk |-> [tk EXCEPT !.pc = "wait", !.sub[c] = "wait",
                                 !.blocked = @ \cup {c}],
               ls |-> [ls EXCEPT ![c] = Enqueue(@, t)]]

get_cache_stats(t) ==
    LET r == StatsFrom(t, [IdleMgr EXCEPT !.op = "stats"], mlocks, 1) IN
    /\ MgrIssue(t)
    /\ mtasks' = [mtasks EXCEPT ![t] = r.tk]
    /\ mlocks' = r.ls
    /\ mcaches' = mcaches

\* The position of named cache c in the order.
OrderOf(c) == CHOOSE i \in 1..Len(CacheOrder) : CacheOrder[i] = c

\* get_stats, lines 163-182, after the wait for the lock of c, and on.
StatsAcquired(t, c) ==
    LET tk == mtasks[t]
        r == StatsFrom(t, [tk EXCEPT !.sub[c] = "done", !.stats[c] = Len(mcaches[c])],
                       [mlocks EXCEPT ![c] = Release(ResumeAcquire(@, t))],
                       OrderOf(c) + 1) IN
    /\ MgrResume
    /\ tk.op = "stats"
    /\ tk.sub[c] = "wait"
    /\ Woken(mlocks[c], t)
    /\ mtasks' = [mtasks EXCEPT ![t] = r.tk]
    /\ mlocks' = r.ls
    /\ mcaches' = mcaches

\* The caller takes the outcome; the coroutine is gone.
MgrReturn(t) ==
    /\ universe.plugin = "manager"
    /\ mtasks[t].pc = "done"
    /\ mtasks' = [mtasks EXCEPT ![t] = IdleMgr]
    /\ UNCHANGED <<universe, now, tasks, fundVars, nickVars, mcaches, mlocks, muteVars>>

NextMgr ==
    \/ \E t \in universe.tasks, c \in CacheNames : populate(t, c)
    \/ \E t \in universe.tasks : clear_all_caches(t)
    \/ \E t \in universe.tasks : get_cache_stats(t)
    \/ \E t \in Tasks : PopulateAcquired(t)
    \/ \E t \in Tasks, v \in universe.data : PopulateReturn(t, v)
    \/ \E t \in Tasks : PopulateRaise(t)
    \/ \E t \in Tasks : ClearRun(t)
    \/ \E t \in Tasks, c \in CacheNames : ClearAcquired(t, c)
    \/ \E t \in Tasks : ClearAllReturn(t)
    \/ \E t \in Tasks, c \in CacheNames : StatsAcquired(t, c)
    \/ \E t \in Tasks : MgrReturn(t)

\* ------------------------------------------------- check_bot_mute_status
MuteNoneDone == \A u \in Tasks : mute_tasks[u].pc # "done"

MuteFreeSlot(t) ==
    /\ mute_tasks[t].pc = "idle"
    /\ \A u \in Tasks : u < t => mute_tasks[u].pc # "idle"

\* The events the hook is run for: a private message, or a message of a group.
MuteEvents == {"private"} \cup MuteGroups

\* Lines 52-66: the cached tuple settles the check when it is younger than
\* _CACHE_TTL and either tells of a mute that has not ended or of no mute.
CacheSettles(e, ct) ==
    /\ e.present
    /\ ct - e.time < _CACHE_TTL
    /\ (e.is_muted /\ e.end > ct) \/ ~e.is_muted

\* check_bot_mute_status, lines 26-73, for event ev: up to its return, its
\* IgnoredException or its await of bot.get_group_member_info.
check_bot_mute_status(t, ev) ==
    LET e == _mute_cache[ev] IN
    /\ universe.plugin = "mute"
    /\ MuteNoneDone
    /\ MuteFreeSlot(t)
    /\ IF ev = "private"
       THEN /\ mute_tasks' = [mute_tasks EXCEPT ![t] =
                    [IdleMute EXCEPT !.pc = "done", !.ret = "pass"]]
            /\ last_query' = last_query
       ELSE IF CacheSettles(e, now)
       THEN /\ mute_tasks' = [mute_tasks EXCEPT ![t] =
                    [pc |-> "done", group |-> ev, current_time |-> now,
                     ret |-> IF e.is_muted THEN "ignored" ELSE "pass"]]
            /\ last_query' = last_query
       ELSE /\ mute_tasks' = [mute_tasks EXCEPT ![t] =
                    [pc |-> "query", group |-> ev, current_time |-> now,
                     ret |-> "none"]]
            /\ last_query' = [last_query EXCEPT ![ev] = now]
    /\ UNCHANGED <<universe, now, tasks, fundVars, nickVars, mgrVars, _mute_cache>>

\* Lines 75-89: the API answers with shut_up_timestamp s.
QueryReturn(t, s) ==
    LET tk == mute_tasks[t]
        is_muted == s > tk.current_time IN
    /\ universe.plugin = "mute"
    /\ MuteNoneDone
    /\ tk.pc = "query"
    /\ _mute_cache' = [_mute_cache EXCEPT ![tk.group] =
            MuteEntry(tk.current_time, is_muted, s)]
    /\ mute_tasks' = [mute_tasks EXCEPT ![t] =
            [tk EXCEPT !.pc = "done",
                       !.ret = IF is_muted THEN "ignored" ELSE "pass"]]
    /\ UNCHANGED <<universe, now, tasks, fundVars, nickVars, mgrVars, last_query>>

\* Lines 91-99: the API call raises ActionFailed or another Exception; it
\* is logged and the message passes.
QueryRaise(t) ==
    LET tk == mute_tasks[t] IN
    /\ universe.plugin = "mute"
    /\ MuteNoneDone
    /\ tk.pc = "query"
    /\ mute_tasks' = [mute_tasks EXCEPT ![t] = [tk EXCEPT !.pc = "done", !.ret = "pass"]]
    /\ UNCHANGED <<universe, now, tasks, fundVars, nickVars, mgrVars, _mute_cache, last_query>>

\* The hook is over; the matcher runs or is skipped.
MuteReturn(t) ==
    /\ universe.plugin = "mute"
    /\ mute_tasks[t].pc = "done"
    /\ mute_tasks' = [mute_tasks EXCEPT ![t] = IdleMute]
    /\ UNCHANGED <<universe, now, tasks, fundVars, nickVars, mgrVars, _mute_cache, last_query>>

\* time.time() advances.
MuteTick ==
    /\ universe.plugin = "mute"
    /\ MuteNoneDone
    /\ now < universe.clock
    /\ now' = now + MuteStep
    /\ UNCHANGED <<universe, tasks, fundVars, nickVars, mgrVars, muteVars>>

NextMute ==
    \/ \E t \in universe.tasks, ev \in MuteEvents : check_bot_mute_status(t, ev)
    \/ \E t \in Tasks, s \in ShutUps : QueryReturn(t, s)
    \/ \E t \in Tasks : QueryRaise(t)
    \/ \E t \in Tasks : MuteReturn(t)
    \/ MuteTick

Next == NextFund \/ NextNick \/ NextMgr \/ NextMute

InitFund == Init /\ universe.plugin = "fund"

InitNick == Init /\ universe.plugin = "un_nickname"

InitMgr == Init /\ universe.plugin = "manager"

InitMute == Init /\ universe.plugin = "mute"

SpecFund == InitFund /\ [][NextFund]_vars

SpecNick == InitNick /\ [][NextNick]_vars

SpecMgr == InitMgr /\ [][NextMgr]_vars

SpecMute == InitMute /\ [][NextMute]_vars

Spec == Init /\ [][Next]_vars

\* ---------------------------------------------------------------- progress
\* The runs explored for progress: the callers work on one key (the ETF
\* wrapper on its two) and the clock advances LiveNow times.
LiveNow == 1


LiveUniverses ==
    {[plugin |-> "fund", keys |-> {PrimaryKey}, data |-> {"V1"},
      tasks |-> 1..NumTasks, sizes |-> {MaxSize}, lru |-> FALSE, clock |-> LiveNow],
     [plugin |-> "un_nickname", keys |-> {"g1"}, data |-> {"m1"},
      tasks |-> 1..NumTasks, sizes |-> {MaxSize}, lru |-> FALSE, clock |-> LiveNow]}

InitLive == InitIn(LiveUniverses)

\* The awaited fetch of t ends, one way or another.
FetchEnds(t) ==
    \/ \E v \in universe.data : FetchReturn(t, v)
    \/ FetchRaise(t)
    \/ FetchCancel(t)

NickFetchEnds(t) ==
    \/ \E m \in universe.data : NickFetchReturn(t, m)
    \/ NickFetchDbError(t)
    \/ NickFetchCancel(t)

\* A step of task t past a suspension or out of its coroutine.
Step(t) ==
    \/ LockAcquired(t)
    \/ NickLockAcquired(t)
    \/ FetchEnds(t)
    \/ NickFetchEnds(t)
    \/ Return(t)

\* The tasks of the runs explored for progress.
LiveTasks == 1..NumTasks

\* The event loop runs every task that is ready again and again, and every
\* fetch ends.  (A ready task is not run while another coroutine returns,
\* so its step is enabled off and on: the fairness is strong.)
Fairness == \A t \in LiveTasks : SF_vars(Step(t))

\* The steps of the two caches the progress argument is about.
NextLive == NextFund \/ NextNick

SpecLive == InitLive /\ [][NextLive]_vars /\ Fairness

\* ================================================================ claims
\* The calls that go through the fetch-on-miss path.
Fetching == {"get_or_update", "get_map"}

\* C1  Single-flight.  Callers that wait for a key while another caller's
\* fetch for it succeeds are served by that one fetch: as long as the stored
\* entry stays untouched and unexpired, such a caller never invokes the
\* fetch function and returns the stored value; and at no time are two
\* fetches for one key in flight (for un_nickname: among concurrent
\* _get_cached_nickname_map calls, with no _invalidate_cache on the group).
C1_SingleFlight ==
    /\ \A t \in Tasks :
          (tasks[t].op \in Fetching /\ tasks[t].served # "none")
             => /\ tasks[t].pc # "fetch"
                /\ tasks[t].pc = "done"
                      => tasks[t].ret = tasks[t].served /\ tasks[t].fetched = {}
    /\ universe.plugin = "fund" => \A k \in Keys : Cardinality(InFetch(k)) <= 1
    /\ universe.plugin = "un_nickname"
          => \A g \in Groups \ invalidated : Cardinality(InFetch(g)) <= 1

\* C1 witness: a caller that waited during another caller's fetch returns
\* the value that fetch stored, from the re-check under the lock.
C1_Witness ==
    \E t \in Tasks :
        /\ tasks[t].pc = "done"
        /\ tasks[t].op \in Fetching
        /\ tasks[t].how = "hit"
        /\ tasks[t].served # "none"
        /\ tasks[t].ret = tasks[t].served

\* C2  Per-key mutual exclusion, as claimed: for every group at most one task
\* is inside the critical section of a populate or an invalidate.  (The
\* critical section of _invalidate_cache has no suspension, so a task is
\* seen inside one only while it awaits the query.)
C2_MutualExclusion == \A g \in Groups : Cardinality(InFetch(g)) <= 1

\* C3  Invalidate race, as claimed: when an invalidate that began during a
\* task's fetch has completed, the value of that fetch is not left in the
\* cache as a fresh entry.
C3_InvalidateNotLost ==
    \A t \in Tasks :
        (tasks[t].pc = "done" /\ tasks[t].how = "stored" /\ tasks[t].lost)
           => IF universe.plugin = "fund"
              THEN FreshData(Lookup(cache, tasks[t].key), tasks[t].ttl) = "none"
              ELSE ~NickFresh(nickname_cache[tasks[t].key])

\* The paths a call ends on when its fetch raised (for un_nickname: when the
\* query raised sqlite3.Error).
FetchFailed == {"stale", "raise", "negative"}

\* C4  Stale fallback on failure.  A get_or_update or
\* _get_cached_nickname_map call that found an expired entry with value V1
\* (a value other than None) and whose fetch raised returns V1 and does not
\* raise.
C4_StaleOnFailure ==
    \A t \in Tasks :
        (/\ tasks[t].pc = "done"
         /\ tasks[t].op \in Fetching
         /\ tasks[t].how \in FetchFailed
         /\ tasks[t].entry.present
         /\ tasks[t].entry.data # None)
           => /\ tasks[t].how = "stale"
              /\ tasks[t].ret = tasks[t].entry.data
              /\ tasks[t].ret # Raised

\* C4 witness: a get_or_update whose fetch raised returns the expired value.
C4_Witness ==
    \E t \in Tasks :
        /\ tasks[t].pc = "done"
        /\ tasks[t].op = "get_or_update"
        /\ tasks[t].how = "stale"
        /\ tasks[t].entry.present
        /\ now - tasks[t].entry.timestamp > tasks[t].ttl
        /\ tasks[t].ret = tasks[t].entry.data

\* C5  Hard failure with no history.  When the fetch of a get_or_update on
\* a key without entry raises, the call raises to its caller and the cache
\* is left as it was, without an entry for the key.
C5_HardFailure ==
    [][\A t \in Tasks :
          (/\ tasks[t].pc = "fetch"
           /\ tasks[t].op = "get_or_update"
           /\ ~tasks[t].entry.present
           /\ tasks'[t].pc = "done"
           /\ tasks'[t].how \in FetchFailed)
             => /\ tasks'[t].ret = Raised
                /\ cache' = cache
                /\ IndexOf(cache', tasks[t].key) = 0]_vars

\* C5 witness: a get_or_update on a key without entry has raised.
C5_Witness ==
    \E t \in Tasks :
        /\ tasks[t].pc = "done"
        /\ tasks[t].op = "get_or_update"
        /\ tasks[t].how = "raise"
        /\ ~tasks[t].entry.present
        /\ IndexOf(cache, tasks[t].key) = 0

\* C6  Primary-to-fallback switch, as claimed: a get_etf_spot_data_cached
\* call made while the value V2 a fallback fetch stored is within ttl (and
\* untouched) returns V2 and invokes neither the primary nor the fallback
\* fetch.
C6_SwitchThenHit ==
    \A t \in Tasks :
        (tasks[t].op = "etf" /\ tasks[t].seen0 # "none")
           => /\ tasks[t].pc # "fetch"
              /\ tasks[t].pc = "done"
                    => tasks[t].ret = tasks[t].seen0 /\ tasks[t].fetched = {}

\* C7  Freshness, as claimed: a get_or_update(k, fetch, T) issued while the
\* entry that set(k, v) wrote is within T, with no invalidate, clear,
\* eviction or replacement of k since, returns v and does not invoke fetch.
C7_FreshAfterSet ==
    \A t \in Tasks :
        (tasks[t].op = "get_or_update" /\ tasks[t].seen0 # "none")
           => /\ tasks[t].pc # "fetch"
              /\ tasks[t].pc = "done"
                    => tasks[t].ret = tasks[t].seen0 /\ tasks[t].fetched = {}

\* C8  Capacity bound.  The cache never holds more than max_size entries
\* (in particular whenever no operation is in progress).
C8_CapacityBound == Len(cache) <= max_size

\* C8 witness: an insert into a full cache has pushed a key out and left
\* the cache full.
C8_Witness ==
    \E t \in Tasks :
        /\ tasks[t].pc = "done"
        /\ tasks[t].how \in {"set", "stored"}
        /\ tasks[t].evicted # {}
        /\ Len(cache) = max_size

\* The keys of a sequence of keys.
Range(q) == {q[i] : i \in 1..Len(q)}

\* C9  LRU order.  With max_size = 2, when the cache holds two keys whose
\* last touches (inserts of new keys, get, fresh get_or_update hits) came
\* in the order x, y, the insert of a new key z leaves exactly {y, z}
\* cached: {B, C} after inserting A, B, C, and {A, C} when A was read
\* between the inserts of B and C.
C9_LruOrder ==
    \A t \in Tasks :
        (/\ tasks[t].pc = "done"
         /\ tasks[t].how \in {"set", "stored"}
         /\ max_size = 2
         /\ tasks[t].before # Off
         /\ Len(tasks[t].before) = 2
         /\ tasks[t].key \notin Range(tasks[t].before))
           => KeysOf(cache) = {tasks[t].before[2], tasks[t].key}

\* C9 witness: "k3" is inserted after PrimaryKey, FallbackKey and a read of
\* PrimaryKey: the insert order of the two cached keys is not the order of
\* their last touches, and FallbackKey is the key pushed out.
C9_Witness ==
    \E t \in Tasks :
        /\ tasks[t].pc = "done"
        /\ tasks[t].how \in {"set", "stored"}
        /\ max_size = 2
        /\ tasks[t].key = "k3"
        /\ tasks[t].before = << FallbackKey, PrimaryKey >>
        /\ tasks[t].evicted = {FallbackKey}
        /\ KeysOf(cache) = {PrimaryKey, "k3"}

\* The operations on one key that the claim of key independence names.
PerKey == {"get_or_update", "invalidate", "set", "get_map", "invalidate_cache"}

\* Task u waits for the lock task t holds during its fetch: SafeCache has
\* the one self._lock; in un_nickname it is the lock object both refer to.
WaitsFor(u, t) ==
    /\ tasks[t].pc = "fetch"
    /\ tasks[u].pc = "wait"
    /\ universe.plugin = "un_nickname" => tasks[u].lk = tasks[t].lk

\* C10  Key independence, as claimed: while a task is suspended in the
\* fetch for k1, no get_or_update, invalidate or set on another key k2 waits
\* for that fetch to finish.
C10_KeyIndependence ==
    \A t, u \in Tasks :
        (tasks[u].op \in PerKey /\ tasks[u].key # tasks[t].key) => ~WaitsFor(u, t)

\* The value the cache holds fresh for the call that task record tk makes,
\* "none" when there is none.
FreshFor(tk) ==
    IF tk.op = "get_map"
    THEN IF NickFresh(nickname_cache[tk.key]) THEN nickname_cache[tk.key].data ELSE "none"
    ELSE FreshData(Lookup(cache, tk.key), tk.ttl)

\* C11  Lock-free fast path, as claimed: a get_or_update or
\* _get_cached_nickname_map call made while the cache holds an entry fresh
\* for it returns that value in its first step, without waiting for a lock,
\* whoever holds one.
C11_FastPath ==
    [][\A t \in Tasks :
          (/\ tasks[t].pc = "idle"
           /\ tasks'[t].op \in Fetching
           /\ FreshFor(tasks'[t]) # "none")
             => /\ tasks'[t].pc = "done"
                /\ tasks'[t].ret = FreshFor(tasks'[t])]_vars

\* The holder of lock state l, in a run of SafeCache or of un_nickname with
\* lock object i: a task suspended in its fetch under that lock.
Held(i) ==
    \E t \in Tasks :
        /\ tasks[t].pc = "fetch"
        /\ universe.plugin = "un_nickname" => tasks[t].lk = i

\* C12  Lock release on every exit path.  A lock is held only while its
\* holder awaits its fetch: once the holder has left by success, by a fetch
\* error or by cancellation, the lock is free; and with a fair event loop
\* every task waiting for a lock gets it and goes on to its re-check.
C12_LockReleased ==
    /\ [](universe.plugin = "fund" => (lock.locked => Held(0)))
    /\ [](universe.plugin = "un_nickname"
             => \A i \in LockIds : locks[i].locked => Held(i))
    /\ \A t \in LiveTasks : (tasks[t].pc = "wait") ~> (tasks[t].pc # "wait")

\* C12 witness: the holder was cancelled in its fetch, and the first waiter's
\* future is resolved.
C12_Witness ==
    \E t, u \in Tasks :
        /\ tasks[t].pc = "done"
        /\ tasks[t].how = "cancelled"
        /\ tasks[u].pc = "wait"
        /\ IF universe.plugin = "fund" THEN Woken(lock, u) /\ ~lock.locked
           ELSE Woken(locks[tasks[u].lk], u) /\ ~locks[tasks[u].lk].locked

\* C13  invalidate(key) returns True exactly when an entry for key existed
\* when it ran under the lock; afterwards the cache holds no entry for key,
\* and the entries of the other keys and their order are as before.
C13_InvalidateFrame ==
    [][\A t \in Tasks :
          (/\ tasks'[t].op = "invalidate"
           /\ tasks'[t].pc = "done"
           /\ tasks[t].pc # "done")
             => /\ tasks'[t].ret = "True" <=> IndexOf(cache, tasks'[t].key) # 0
                /\ tasks'[t].ret \in {"True", "False"}
                /\ IndexOf(cache', tasks'[t].key) = 0
                /\ cache' = SelectSeq(cache, LAMBDA x : x.key # tasks'[t].key)]_vars

\* C13 witness: an invalidate has removed an entry and left another one.
C13_Witness ==
    \E t \in Tasks :
        /\ tasks[t].pc = "done"
        /\ tasks[t].op = "invalidate"
        /\ tasks[t].ret = "True"
        /\ cache # << >>

\* C14  peek, as claimed: SafeCache.get never invokes a fetch and never
\* waits for a lock, even while a populate holds one during its fetch.
C14_PeekNoLock ==
    \A t \in Tasks : tasks[t].op = "get" => tasks[t].pc \notin {"wait", "fetch"}

\* The fetch functions task record tk had invoked before a step.
Invoked(tk) == IF tk.pc = "idle" THEN {} ELSE tk.fetched

\* C15  No implicit retry.  Whenever a call starts to await a fetch
\* function, it has not invoked that function before; the fallback fetch
\* is started only by a call that has invoked the primary fetch, and a
\* call turns to its fallback only out of its failed primary attempt.
C15_NoRetry ==
    [][\A t \in Tasks :
          /\ (/\ tasks'[t].pc = "fetch"
              /\ tasks[t].pc # "fetch" \/ tasks'[t].phase # tasks[t].phase)
                => /\ FetchFunc(tasks'[t]) \notin Invoked(tasks[t])
                   /\ tasks'[t].fetched = Invoked(tasks[t]) \cup {FetchFunc(tasks'[t])}
                   /\ FetchFunc(tasks'[t]) = "fallback"
                         => Invoked(tasks[t]) = {"primary"}
          /\ (tasks'[t].phase = 2 /\ tasks[t].phase # 2)
                => /\ tasks[t].pc = "fetch"
                   /\ tasks[t].phase = 1
                   /\ tasks[t].fetched = {"primary"}]_vars

\* C15 witness: a call awaits the fallback fetch after its primary failed.
C15_Witness ==
    \E t \in Tasks :
        /\ tasks[t].pc = "fetch"
        /\ tasks[t].op = "etf"
        /\ tasks[t].phase = 2
        /\ tasks[t].fetched = {"primary", "fallback"}

\* C16: clear_all_caches returns only after the clear of every named cache
\* has completed, and when no other task stored an entry while it ran,
\* every named cache is empty at its return.
C16_ClearAll ==
    \A t \in Tasks :
        (mtasks[t].op = "clear_all" /\ mtasks[t].pc = "done") =>
            /\ \A c \in CacheNames : mtasks[t].sub[c] = "done"
            /\ ~mtasks[t].inserted => \A c \in CacheNames : mcaches[c] = << >>

\* A clear_all_caches that had to wait for a populated cache's lock returns
\* with no store in between.
C16_Witness ==
    \E t \in Tasks :
        /\ mtasks[t].op = "clear_all"
        /\ mtasks[t].pc = "done"
        /\ mtasks[t].blocked # {}
        /\ ~mtasks[t].inserted
        /\ \A c \in CacheNames : mcaches[c] = << >>

\* C17: while clear_all_caches or get_cache_stats waits for the lock of one
\* named cache, its operation on every other named cache has been started.
C17_FanOut ==
    \A t \in Tasks :
        (mtasks[t].op \in {"clear_all", "stats"}
            /\ \E c \in CacheNames : mtasks[t].sub[c] = "wait") =>
                \A d \in CacheNames : mtasks[t].sub[d] # "none"

\* C18: for each group, a call of get_group_member_info is at least
\* _CACHE_TTL seconds after the previous call for that group.
C18_QueryRate ==
    [][\A t \in Tasks :
        (mute_tasks[t].pc # "query" /\ mute_tasks'[t].pc = "query") =>
            LET g == mute_tasks'[t].group IN
            last_query[g] = Never \/ now - last_query[g] >= _CACHE_TTL]_vars

\* The entry the cache holds for the call of task record tk is fresh in the
\* claimed sense: present, and younger than the ttl of the call.
YoungerThanTtl(tk) ==
    LET entry == Lookup(cache, tk.key) IN
    entry.present /\ now - entry.timestamp < tk.ttl

\* C19  TTL boundary, as claimed: a get_or_update call whose lookup runs
\* returns the cached value without a fetch exactly when the entry is
\* younger than ttl; at an age equal to ttl it invokes the fetch.
C19_TtlBoundary ==
    [][\A t \in Tasks :
        (/\ tasks[t].pc \in {"idle", "wait"}
         /\ tasks'[t].op = "get_or_update"
         /\ tasks'[t].pc \in {"fetch", "done"}) =>
            (tasks'[t].pc = "done" <=> YoungerThanTtl(tasks'[t]))]_vars

\* C20  Recovery order, as claimed: a get_etf_spot_data_cached call that
\* returns the value of an expired entry has invoked both the primary and
\* the fallback fetch before.
C20_RecoveryOrder ==
    \A t \in Tasks :
        (tasks[t].pc = "done" /\ tasks[t].op = "etf" /\ tasks[t].how = "stale") =>
            tasks[t].fetched = {"primary", "fallback"}

\* C21  Strict LRU counts every touch, as claimed: a set or a successful
\* fetch of get_or_update leaves its key as the most recently used one,
\* the last to be evicted, also when the key was present before.
C21_ReplaceIsTouch ==
    [][\A t \in Tasks :
        (/\ tasks[t].pc # "done"
         /\ tasks'[t].pc = "done"
         /\ tasks'[t].how \in {"set", "stored"}) =>
            /\ cache' # << >>
            /\ cache'[Len(cache')].key = tasks'[t].key]_vars

\* The entry held for key k by the SafeCache contents c or the nickname
\* cache n, whichever the run uses.
EntryOf(c, n, k) == IF universe.plugin = "un_nickname" THEN n[k] ELSE Lookup(c, k)

\* C22  A failed refresh leaves the cache unchanged: a call that serves the
\* old entry because its fetch failed has attempted the fetch, returns the
\* data the cache holds for the key and leaves that entry as it was, data
\* and time.
C22_FailedRefreshFrame ==
    [][\A t \in Tasks :
        (/\ tasks[t].pc = "fetch"
         /\ tasks'[t].pc = "done"
         /\ tasks'[t].how = "stale") =>
            LET k == tasks[t].key IN
            /\ tasks[t].fetched # {}
            /\ EntryOf(cache, nickname_cache, k).present
            /\ EntryOf(cache', nickname_cache', k) = EntryOf(cache, nickname_cache, k)
            /\ tasks'[t].ret = EntryOf(cache, nickname_cache, k).data]_vars

\* C23  Entry time is the completion time, as claimed for the mute-status
\* cache: a tuple that the answer of get_group_member_info puts into
\* _mute_cache carries the time at which the answer arrived.
C23_StoredAtCompletion ==
    [][\A t \in Tasks :
        (/\ mute_tasks[t].pc = "query"
         /\ mute_tasks'[t].pc = "done"
         /\ _mute_cache'[mute_tasks[t].group] # _mute_cache[mute_tasks[t].group]) =>
            _mute_cache'[mute_tasks[t].group].time = now]_vars

\* C24  Race-free lock creation: a call that obtains the lock of a group
\* obtains the object registered for the group when there is one, and
\* otherwise a new object that no other task refers to; so the callers that
\* arrive while a group's lock stays registered all use one object.
C24_OneLockCreated ==
    [][\A t \in Tasks :
        (tasks[t].pc = "idle" /\ tasks'[t].pc # "idle" /\ tasks'[t].lk # 0) =>
            LET g == tasks'[t].key
                i == tasks'[t].lk IN
            /\ cache_locks[g] # 0 => i = cache_locks[g]
            /\ cache_locks[g] = 0 =>
                  /\ Unused(i)
                  /\ \A u \in Tasks \ {t} : tasks[u].pc \in {"wait", "fetch"} => tasks[u].lk # i]_vars

\* C24 witness: three concurrent callers of one group, with no lock
\* registered when the first arrived, share the registered object.
C24_Witness ==
    \E g \in Groups :
        /\ cache_locks[g] # 0
        /\ \A t \in Tasks :
              /\ tasks[t].pc \in {"wait", "fetch"}
              /\ tasks[t].key = g
              /\ tasks[t].lk = cache_locks[g]

\* C25  Reclaim only when unlocked: a step that takes a group's lock out of
\* the registry leaves that lock object not held by any task, and an
\* _invalidate_cache that ends while the registered lock is held leaves the
\* registry as it was.
C25_ReclaimUnlocked ==
    [][/\ \A g \in Groups :
             (cache_locks[g] # 0 /\ cache_locks'[g] # cache_locks[g]) =>
                 /\ cache_locks'[g] = 0
                 /\ ~locks'[cache_locks[g]].locked
                 /\ \A u \in Tasks :
                       ~(tasks'[u].pc = "fetch" /\ tasks'[u].lk = cache_locks[g])
       /\ \A t \in Tasks :
             (/\ tasks[t].pc # "done"
              /\ tasks'[t].pc = "done"
              /\ tasks'[t].op = "invalidate_cache") =>
                 LET r == cache_locks[tasks'[t].key] IN
                 (r # 0 /\ locks'[r].locked) => cache_locks'[tasks'[t].key] = r]_vars

\* C25 witness: an _invalidate_cache has ended and its group's lock, not
\* held, is out of the registry.
C25_Witness ==
    \E t \in Tasks :
        /\ tasks[t].pc = "done"
        /\ tasks[t].op = "invalidate_cache"
        /\ tasks[t].lk # 0
        /\ cache_locks[tasks[t].key] = 0
        /\ ~locks[tasks[t].lk].locked

\* C26  Bounded lock registry, as claimed: when no _get_cached_nickname_map
\* and no _invalidate_cache call is in progress, every group with a lock in
\* _cache_locks has an entry in _nickname_cache.
C26_RegistryBounded ==
    (universe.plugin = "un_nickname" /\ \A t \in Tasks : tasks[t].pc = "idle") =>
        \A g \in Groups : cache_locks[g] # 0 => nickname_cache[g].present

\* C27  Negative caching on outage: when the query fails with a database
\* error and the group has no entry, the call returns the empty map and
\* stores it for EMPTY_CACHE_TTL; when the group has an entry, the call
\* returns that entry's map and leaves the entry alone; and a call made
\* while an entry has not expired returns its map without a query.
C27_NegativeCaching ==
    [][\A t \in Tasks :
        /\ (/\ tasks[t].pc = "fetch"
            /\ tasks'[t].pc = "done"
            /\ tasks'[t].how \in {"negative", "stale"}) =>
               LET k == tasks[t].key IN
               IF nickname_cache[k].present
               THEN /\ tasks'[t].ret = nickname_cache[k].data
                    /\ nickname_cache'[k] = nickname_cache[k]
               ELSE /\ tasks'[t].ret = EmptyMap
                    /\ nickname_cache'[k] = NickEntry(now + EMPTY_CACHE_TTL, EmptyMap)
        /\ (/\ tasks[t].pc = "idle"
            /\ tasks'[t].op = "get_map"
            /\ NickFresh(nickname_cache[tasks'[t].key])) =>
               /\ tasks'[t].pc = "done"
               /\ tasks'[t].ret = nickname_cache[tasks'[t].key].data
               /\ tasks'[t].fetched = {}]_vars

\* The tasks that use a lock for group g: they hold it or wait for it.
UsersOf(g) == {t \in Tasks : tasks[t].pc \in {"wait", "fetch"} /\ tasks[t].key = g}

\* C28  Registered-lock identity, as claimed: every task that holds or
\* waits for a lock of group g uses the lock object registered for g.
C28_RegisteredLock ==
    universe.plugin = "un_nickname" =>
        \A g \in Groups : \A t \in UsersOf(g) : tasks[t].lk = cache_locks[g]

\* C29  Deadlock freedom.  Whenever a task is suspended, waiting for a
\* group's lock or holding one in its query, the registry guard is neither
\* held nor awaited; and with a fair event loop and queries that end, every
\* _get_cached_nickname_map and _invalidate_cache call that was suspended
\* comes to its return.
C29_DeadlockFree ==
    /\ [](universe.plugin = "un_nickname"
             => ~_global_lock.locked /\ _global_lock.waiters = << >>)
    /\ \A t \in LiveTasks :
          (universe.plugin = "un_nickname" /\ tasks[t].pc \in {"wait", "fetch"})
              ~> (tasks[t].pc = "done")

\* C29 witness: an _invalidate_cache waits for the lock that a
\* _get_cached_nickname_map holds in its query, both past the guard.
C29_Witness ==
    \E t, u \in Tasks :
        /\ universe.plugin = "un_nickname"
        /\ tasks[t].pc = "fetch"
        /\ tasks[t].op = "get_map"
        /\ tasks[u].pc = "wait"
        /\ tasks[u].op = "invalidate_cache"
        /\ tasks[u].lk = tasks[t].lk
        /\ ~_global_lock.locked

\* C30  Stale-serve depends only on the existence of an entry, as claimed:
\* a get_or_update call whose fetch failed returns the data of the entry it
\* found, whatever that data is, and raises only when it found no entry.
C30_StaleAnyValue ==
    [][\A t \in Tasks :
        (/\ tasks[t].pc = "fetch"
         /\ tasks[t].op = "get_or_update"
         /\ tasks'[t].pc = "done"
         /\ tasks'[t].how \in FetchFailed) =>
            IF tasks[t].entry.present
            THEN tasks'[t].how = "stale" /\ tasks'[t].ret = tasks[t].entry.data
            ELSE tasks'[t].how = "raise" /\ tasks'[t].ret = Raised]_vars
====
